---- MODULE Spec2Model ----
(***************************************************************************)
(* Exemplar reservoirs of the metrics SDK                                  *)
(* (opentelemetry/sdk/metrics/_internal/exemplar/exemplar_reservoir.py):   *)
(* ExemplarBucket, FixedSizeExemplarReservoirABC,                          *)
(* SimpleFixedSizeExemplarReservoir and                                    *)
(* AlignedHistogramBucketExemplarReservoir.  One reservoir object is       *)
(* modelled; its calls are serialised by the caller, so every call is one  *)
(* atomic action.                                                          *)
(***************************************************************************)
EXTENDS Integers, Sequences, FiniteSets, TLC

\* ------------------------------------------------------------------------
\* Bounds of the model
\* ------------------------------------------------------------------------
\* largest `size` given to SimpleFixedSizeExemplarReservoir
MaxSize == 2
\* largest number of completed offers in one sampling period
MaxOffers == 3
\* largest number of calls made by the threads of ThreadSpec
MaxCalls == 3

\* ------------------------------------------------------------------------
\* Values of the program
\* ------------------------------------------------------------------------
\* Python's None, for the optional span and trace ids
None == "None"

\* Attributes is Optional[Mapping]: None, or a dict given by its items
NoneAttributes == [none |-> TRUE, items |-> {}]
Dict(items) == [none |-> FALSE, items |-> items]
\* truth value of an Attributes object: None and the empty dict are falsy
Truthy(attributes) == (~attributes.none) /\ attributes.items # {}
\* the keys of a dict given by its items
Keys(items) == {kv[1] : kv \in items}

\* the span a Context resolves to: trace.get_current_span(ctx)
INVALID_SPAN == [span_id |-> "0", trace_id |-> "0"]
Span1 == [span_id |-> "s1", trace_id |-> "t1"]
Span2 == [span_id |-> "s2", trace_id |-> "t2"]

\* the inputs of the calls
Values == {1, 2, 3}
AttributeSets == {NoneAttributes, Dict({<<"a", 1>>, <<"b", 2>>})}
Contexts == {INVALID_SPAN, Span1}
\* the (attributes, ctx) pairs the serialised calls offer: a measurement made
\* outside of any span carries no attributes here
OfferInputs ==
    {p \in AttributeSets \X Contexts :
        ~(Truthy(p[1]) /\ p[2] = INVALID_SPAN)}
PointAttributeSets == {{}, {<<"a", 7>>}}
Sizes == (0 - 1) .. MaxSize
BoundarySets == {<<>>, <<2>>, <<1, 2>>}

\* ------------------------------------------------------------------------
\* ExemplarBucket
\* ------------------------------------------------------------------------
\* ExemplarBucket.__init__
Bucket_init ==
    [value |-> 0, attributes |-> NoneAttributes, time_unix_nano |-> 0,
     span_id |-> None, trace_id |-> None, offered |-> FALSE]

\* an offer that keeps the sample of an occupied bucket
Bucket_offer_keeps_first(self, value, time_unix_nano, attributes, ctx) ==
    IF self.offered
    THEN self
    ELSE [self EXCEPT !.value = value, !.time_unix_nano = time_unix_nano,
                      !.attributes = attributes,
                      !.span_id = IF ctx # INVALID_SPAN
                                  THEN ctx.span_id ELSE @,
                      !.trace_id = IF ctx # INVALID_SPAN
                                   THEN ctx.trace_id ELSE @,
                      !.offered = TRUE]

\* ExemplarBucket.offer: the span ids are written only under a valid span
Bucket_offer(self, value, time_unix_nano, attributes, ctx) ==
    LET stored == [self EXCEPT !.value = value,
                               !.time_unix_nano = time_unix_nano,
                               !.attributes = attributes]
        span == ctx
        traced == IF span # INVALID_SPAN
                  THEN [stored EXCEPT !.span_id = span.span_id,
                                      !.trace_id = span.trace_id]
                  ELSE stored
    IN  [traced EXCEPT !.offered = TRUE]

\* a reset that forgets to clear the span and trace ids
Bucket_reset_keeps_ids(self) ==
    [self EXCEPT !.value = 0, !.attributes = Dict({}), !.time_unix_nano = 0,
                 !.offered = FALSE]

\* a reset that leaves the offered flag set
Bucket_reset_keeps_offered(self) ==
    [self EXCEPT !.value = 0, !.attributes = Dict({}), !.time_unix_nano = 0,
                 !.span_id = None, !.trace_id = None]

\* ExemplarBucket.__reset
Bucket_reset(self) ==
    [self EXCEPT !.value = 0, !.attributes = Dict({}), !.time_unix_nano = 0,
                 !.span_id = None, !.trace_id = None, !.offered = FALSE]

\* Exemplar(filtered_attributes, value, time_unix_nano, span_id, trace_id)
Exemplar(filtered_attributes, value, time_unix_nano, span_id, trace_id) ==
    [filtered_attributes |-> filtered_attributes, value |-> value,
     time_unix_nano |-> time_unix_nano, span_id |-> span_id,
     trace_id |-> trace_id]

\* a collect that reads the sample out and leaves it in the bucket
Bucket_collect_peek(self, point_attributes) ==
    IF ~self.offered
    THEN [bucket |-> self, exemplar |-> <<>>]
    ELSE [bucket |-> self,
          exemplar |-> <<Exemplar(
              IF Truthy(self.attributes)
              THEN Dict({kv \in self.attributes.items :
                            kv[1] \notin Keys(point_attributes)})
              ELSE NoneAttributes,
              self.value, self.time_unix_nano, self.span_id,
              self.trace_id)>>]

\* a collect that drops an attribute only when the point has the same item,
\* key and value
Bucket_collect_filters_items(self, point_attributes) ==
    IF ~self.offered
    THEN [bucket |-> self, exemplar |-> <<>>]
    ELSE [bucket |-> Bucket_reset(self),
          exemplar |-> <<Exemplar(
              IF Truthy(self.attributes)
              THEN Dict({kv \in self.attributes.items :
                            kv \notin point_attributes})
              ELSE NoneAttributes,
              self.value, self.time_unix_nano, self.span_id,
              self.trace_id)>>]

\* ExemplarBucket.collect: the bucket after the call and the returned value,
\* <<>> for None and <<exemplar>> for an Exemplar
Bucket_collect(self, point_attributes) ==
    IF ~self.offered
    THEN [bucket |-> self, exemplar |-> <<>>]
    ELSE LET filtered_attributes ==
                 IF Truthy(self.attributes)
                 THEN Dict({kv \in self.attributes.items :
                               kv[1] \notin Keys(point_attributes)})
                 ELSE NoneAttributes
             exemplar == Exemplar(filtered_attributes, self.value,
                                  self.time_unix_nano, self.span_id,
                                  self.trace_id)
         IN  [bucket |-> Bucket_reset(self), exemplar |-> <<exemplar>>]

\* ------------------------------------------------------------------------
\* FixedSizeExemplarReservoirABC and its two subclasses.  A reservoir is a
\* record of its fields; _boundaries is <<>> for the simple reservoir.
\* ------------------------------------------------------------------------
\* FixedSizeExemplarReservoirABC.__init__: range(size) is empty for size <= 0
FixedSize_init(kind, size, boundaries) ==
    [kind |-> kind, size |-> size, boundaries |-> boundaries,
     reservoir_storage |-> [i \in 0 .. (size - 1) |-> Bucket_init],
     measurements_seen |-> 0]

\* SimpleFixedSizeExemplarReservoir.__init__
Simple_init(size) == FixedSize_init("simple", size, <<>>)

\* AlignedHistogramBucketExemplarReservoir.__init__
Aligned_init(boundaries) ==
    FixedSize_init("aligned", Len(boundaries) + 1, boundaries)

\* FixedSizeExemplarReservoirABC._reset
FixedSize_reset(self) == self

\* SimpleFixedSizeExemplarReservoir._reset
Simple_reset(self) == [FixedSize_reset(self) EXCEPT !.measurements_seen = 0]

\* the _reset that collect dispatches to
Reset(self) ==
    IF self.kind = "simple" THEN Simple_reset(self) ELSE FixedSize_reset(self)

\* the exemplars of buckets i, i+1, ... with the later buckets first
RECURSIVE Exemplars_reversed(_, _, _)
Exemplars_reversed(self, point_attributes, i) ==
    IF i >= self.size
    THEN <<>>
    ELSE Exemplars_reversed(self, point_attributes, i + 1)
             \o Bucket_collect(self.reservoir_storage[i],
                               point_attributes).exemplar

\* the exemplars of buckets i, i+1, ... in index order, None filtered out
RECURSIVE Exemplars(_, _, _)
Exemplars(self, point_attributes, i) ==
    IF i >= self.size
    THEN <<>>
    ELSE Bucket_collect(self.reservoir_storage[i], point_attributes).exemplar
             \o Exemplars(self, point_attributes, i + 1)

\* FixedSizeExemplarReservoirABC.collect: filter and map are lazy, so _reset
\* runs first and the buckets are collected when the list is built
FixedSize_collect(self, point_attributes) ==
    LET after_reset == Reset(self)
    IN  [self |-> [after_reset EXCEPT !.reservoir_storage =
                      [i \in DOMAIN after_reset.reservoir_storage |->
                          Bucket_collect(after_reset.reservoir_storage[i],
                                         point_attributes).bucket]],
         result |-> Exemplars(after_reset, point_attributes, 0)]

\* the values randrange(0, measurements_seen) can return; empty: ValueError
Randrange(stop) == 0 .. (stop - 1)

\* a bucket selection that leaves the fill branch one offer too early
Simple_find_bucket_index_early_draw(self, r) ==
    IF self.measurements_seen < self.size - 1
    THEN [self |-> self, index |-> self.measurements_seen,
          raised |-> FALSE, drew |-> FALSE]
    ELSE IF Randrange(self.measurements_seen) = {}
         THEN [self |-> self, index |-> 0 - 1, raised |-> TRUE, drew |-> FALSE]
         ELSE [self |-> [self EXCEPT !.measurements_seen = @ + 1],
               index |-> IF r < self.size THEN r ELSE 0 - 1,
               raised |-> FALSE, drew |-> TRUE]

\* SimpleFixedSizeExemplarReservoir._find_bucket_index; r is the value drawn
\* by randrange when the draw is made
Simple_find_bucket_index(self, r) ==
    IF self.measurements_seen < self.size
    THEN [self |-> self, index |-> self.measurements_seen,
          raised |-> FALSE, drew |-> FALSE]
    ELSE IF Randrange(self.measurements_seen) = {}
         THEN [self |-> self, index |-> 0 - 1, raised |-> TRUE, drew |-> FALSE]
         ELSE [self |-> [self EXCEPT !.measurements_seen = @ + 1],
               index |-> IF r < self.size THEN r ELSE 0 - 1,
               raised |-> FALSE, drew |-> TRUE]

\* SimpleFixedSizeExemplarReservoir.offer
Simple_offer(self, value, time_unix_nano, attributes, ctx, r) ==
    LET found == Simple_find_bucket_index(self, r)
        index == found.index
    IN  IF found.raised
        THEN found
        ELSE IF index # 0 - 1
             THEN [found EXCEPT !.self.reservoir_storage[index] =
                      Bucket_offer(@, value, time_unix_nano, attributes, ctx)]
             ELSE found

\* a scan that compares with < and sends a value equal to a boundary to the
\* next bucket
RECURSIVE Aligned_scan_strict(_, _, _)
Aligned_scan_strict(boundaries, value, i) ==
    IF i >= Len(boundaries)
    THEN Len(boundaries)
    ELSE IF value < boundaries[i + 1]
         THEN i
         ELSE Aligned_scan_strict(boundaries, value, i + 1)

\* AlignedHistogramBucketExemplarReservoir._find_bucket_index: the scan of
\* enumerate(boundaries) from position i (0-based)
RECURSIVE Aligned_scan(_, _, _)
Aligned_scan(boundaries, value, i) ==
    IF i >= Len(boundaries)
    THEN Len(boundaries)
    ELSE IF value <= boundaries[i + 1]
         THEN i
         ELSE Aligned_scan(boundaries, value, i + 1)

Aligned_find_bucket_index(self, value) ==
    Aligned_scan(self.boundaries, value, 0)

\* AlignedHistogramBucketExemplarReservoir.offer
Aligned_offer(self, value, time_unix_nano, attributes, ctx) ==
    LET index == Aligned_find_bucket_index(self, value)
    IN  [self |-> [self EXCEPT !.reservoir_storage[index] =
                      Bucket_offer(@, value, time_unix_nano, attributes, ctx)],
         index |-> index, raised |-> FALSE, drew |-> FALSE]

\* offer of either reservoir
Offer(self, value, time_unix_nano, attributes, ctx, r) ==
    IF self.kind = "simple"
    THEN Simple_offer(self, value, time_unix_nano, attributes, ctx, r)
    ELSE Aligned_offer(self, value, time_unix_nano, attributes, ctx)

\* ------------------------------------------------------------------------
\* State
\* ------------------------------------------------------------------------
VARIABLES
    reservoir,   \* the reservoir object
    fresh,       \* a reservoir constructed anew at the last collect, given
                 \* the same calls since
    period,      \* the measurements of the offers completed since the last
                 \* reset (construction or collect), in order
    collected,   \* `period` as it was when the last call, a collect, was
                 \* made; <<>> after any other call
    draws,       \* number of randrange draws made for the offers of
                 \* `period`, or of `collected` right after a collect
    lastCall,    \* the last call and what it returned
    freshCall,   \* what the last call returned on `fresh`
    prevOp,      \* the call before the last one
    threads,     \* ThreadSpec: the call each thread is in, its position in
                 \* the code and its local variables
    emitted,     \* ThreadSpec: the lists returned by the collects, in the
                 \* order of their return
    overlapped,  \* ThreadSpec: a thread has taken a step while another
                 \* thread was inside a call
    calls        \* ThreadSpec: number of calls made

vars == <<reservoir, fresh, period, collected, draws, lastCall, freshCall,
          prevOp, threads, emitted, overlapped, calls>>

\* the variables of the threads, unused when the calls are serialised
tvars == <<threads, emitted, overlapped, calls>>

\* the variables that describe serialised calls, unused by the threads
svars == <<fresh, collected, draws, lastCall, freshCall, prevOp>>

\* the threads
Tids == {1, 2}

\* a thread outside of any call
Idle ==
    [op |-> "idle", pc |-> "idle",
     m |-> [value |-> 0, time_unix_nano |-> 0,
            attributes |-> NoneAttributes, ctx |-> INVALID_SPAN],
     point_attributes |-> {}, index |-> 0, truthy |-> FALSE,
     exemplar |-> [filtered_attributes |-> NoneAttributes, value |-> 0,
                   time_unix_nano |-> 0, span_id |-> None,
                   trace_id |-> None],
     exemplars |-> <<>>]

Call(op, raised, result, point_attributes) ==
    [op |-> op, raised |-> raised, result |-> result,
     point_attributes |-> point_attributes]

\* a measurement as passed to offer
Measurement(value, time_unix_nano, attributes, ctx) ==
    [value |-> value, time_unix_nano |-> time_unix_nano,
     attributes |-> attributes, ctx |-> ctx]

\* the caller's clock: the offers of a period carry increasing timestamps
Now == Len(period) + 1

\* the constructor calls
Constructed ==
    {Simple_init(size) : size \in Sizes}
        \cup {Aligned_init(boundaries) : boundaries \in BoundarySets}

Init ==
    /\ reservoir \in Constructed
    /\ fresh = reservoir
    /\ period = <<>>
    /\ collected = <<>>
    /\ draws = 0
    /\ lastCall = Call("__init__", FALSE, <<>>, {})
    /\ freshCall = lastCall
    /\ prevOp = "none"
    /\ threads = [t \in Tids |-> Idle]
    /\ emitted = <<>>
    /\ overlapped = FALSE
    /\ calls = 0

\* the draws randrange can make in this state (one dummy when none is made)
DrawChoices(self) ==
    IF self.kind = "simple" /\ self.measurements_seen >= self.size
          /\ Randrange(self.measurements_seen) # {}
    THEN Randrange(self.measurements_seen)
    ELSE {0}

\* reservoir.offer(value, Now, attributes, ctx)
DoOffer(value, attributes, ctx, r) ==
    LET out == Offer(reservoir, value, Now, attributes, ctx, r)
        outFresh == Offer(fresh, value, Now, attributes, ctx, r)
    IN  /\ reservoir' = out.self
        /\ fresh' = outFresh.self
        /\ period' = IF out.raised
                     THEN period
                     ELSE Append(period,
                                 Measurement(value, Now, attributes, ctx))
        /\ draws' = (IF lastCall.op = "collect" THEN 0 ELSE draws)
                        + (IF out.drew THEN 1 ELSE 0)
        /\ lastCall' = Call("offer", out.raised, <<>>, {})
        /\ freshCall' = Call("offer", outFresh.raised, <<>>, {})
        /\ prevOp' = lastCall.op
        /\ collected' = <<>>
        /\ UNCHANGED tvars

SimpleOffer ==
    /\ reservoir.kind = "simple"
    /\ Len(period) < MaxOffers
    /\ \E value \in Values, p \in OfferInputs, r \in DrawChoices(reservoir) :
          DoOffer(value, p[1], p[2], r)

AlignedOffer ==
    /\ reservoir.kind = "aligned"
    /\ Len(period) < MaxOffers
    /\ \E value \in Values, p \in OfferInputs :
          DoOffer(value, p[1], p[2], 0)

\* reservoir.collect(point_attributes)
Collect ==
    \E point_attributes \in PointAttributeSets :
       LET out == FixedSize_collect(reservoir, point_attributes)
           outFresh == FixedSize_collect(fresh, point_attributes)
       IN  /\ reservoir' = out.self
           /\ fresh' = IF reservoir.kind = "simple"
                       THEN Simple_init(reservoir.size)
                       ELSE Aligned_init(reservoir.boundaries)
           /\ period' = <<>>
           /\ collected' = period
           /\ draws' = IF lastCall.op = "collect" THEN 0 ELSE draws
           /\ lastCall' = Call("collect", FALSE, out.result, point_attributes)
           /\ freshCall' = Call("collect", FALSE, outFresh.result,
                                point_attributes)
           /\ prevOp' = lastCall.op
           /\ UNCHANGED tvars

Next == SimpleOffer \/ AlignedOffer \/ Collect

Spec == Init /\ [][Next]_vars

\* ------------------------------------------------------------------------
\* ThreadSpec: two threads call offer and collect on one reservoir with no
\* lock around the calls; a step is one read or one assignment of a field.
\* `period` holds the measurements of all the offers called, in call order.
\* ------------------------------------------------------------------------
\* the reservoirs the threads share
ThreadConstructed == {Simple_init(1), Aligned_init(<<2>>)}

\* the arguments of the offers of the threads
ThreadInputs ==
    {[value |-> 1, attributes |-> Dict({<<"a", 1>>, <<"b", 2>>}),
      ctx |-> Span1],
     [value |-> 3, attributes |-> NoneAttributes, ctx |-> INVALID_SPAN]}

\* the argument of the collects of the threads
ThreadPointAttributeSets == {{<<"a", 7>>}}

ThreadInit ==
    /\ reservoir \in ThreadConstructed
    /\ fresh = reservoir
    /\ period = <<>>
    /\ collected = <<>>
    /\ draws = 0
    /\ lastCall = Call("__init__", FALSE, <<>>, {})
    /\ freshCall = lastCall
    /\ prevOp = "none"
    /\ threads = [t \in Tids |-> Idle]
    /\ emitted = <<>>
    /\ overlapped = FALSE
    /\ calls = 0

\* thread t takes a step that leaves it in the state `next`
Step(t, next) ==
    /\ threads' = [threads EXCEPT ![t] = next]
    /\ overlapped' =
          (overlapped \/ \E u \in Tids : u # t /\ threads[u].op # "idle")
    /\ UNCHANGED svars

\* thread t moves to pc and nothing else changes in it
Goto(t, pc) == Step(t, [threads[t] EXCEPT !.pc = pc])

\* the assignment self.__field = value on the bucket thread t works on
Assign(t, field, value) ==
    reservoir' =
       [reservoir EXCEPT !.reservoir_storage[threads[t].index][field] = value]

\* the bucket thread t works on
Bucket(t) == reservoir.reservoir_storage[threads[t].index]

\* thread t calls offer
T_CallOffer(t) ==
    /\ threads[t].op = "idle"
    /\ calls < MaxCalls
    /\ \E input \in ThreadInputs :
          LET m == Measurement(input.value, Len(period) + 1,
                               input.attributes, input.ctx)
          IN  /\ Step(t, [Idle EXCEPT !.op = "offer", !.pc = "find", !.m = m])
              /\ period' = Append(period, m)
    /\ calls' = calls + 1
    /\ UNCHANGED <<reservoir, emitted>>

\* index = self._find_bucket_index(...): after an error or the index -1 the
\* call is over
T_Find(t) ==
    /\ threads[t].pc = "find"
    /\ \E r \in DrawChoices(reservoir) :
          LET found ==
                 IF reservoir.kind = "simple"
                 THEN Simple_find_bucket_index(reservoir, r)
                 ELSE [self |-> reservoir,
                       index |-> Aligned_find_bucket_index(
                                    reservoir, threads[t].m.value),
                       raised |-> FALSE, drew |-> FALSE]
          IN  /\ reservoir' = found.self
              /\ IF found.raised \/ found.index = 0 - 1
                 THEN Step(t, Idle)
                 ELSE Step(t, [threads[t] EXCEPT !.pc = "o_value",
                                                 !.index = found.index])
    /\ UNCHANGED <<period, emitted, calls>>

\* self.__value = value
T_OfferValue(t) ==
    /\ threads[t].pc = "o_value"
    /\ Assign(t, "value", threads[t].m.value)
    /\ Goto(t, "o_time")
    /\ UNCHANGED <<period, emitted, calls>>

\* an offer that leaves the timestamp of the bucket as it is
T_OfferTime_skipped(t) ==
    /\ threads[t].pc = "o_time"
    /\ Goto(t, "o_attributes")
    /\ UNCHANGED <<reservoir, period, emitted, calls>>

\* self.__time_unix_nano = time_unix_nano
T_OfferTime(t) ==
    /\ threads[t].pc = "o_time"
    /\ Assign(t, "time_unix_nano", threads[t].m.time_unix_nano)
    /\ Goto(t, "o_attributes")
    /\ UNCHANGED <<period, emitted, calls>>

\* self.__attributes = attributes
T_OfferAttributes(t) ==
    /\ threads[t].pc = "o_attributes"
    /\ Assign(t, "attributes", threads[t].m.attributes)
    /\ Goto(t, "o_span_id")
    /\ UNCHANGED <<period, emitted, calls>>

\* span = trace.get_current_span(ctx); under a valid span
\* self.__span_id = span_context.span_id
T_OfferSpanId(t) ==
    /\ threads[t].pc = "o_span_id"
    /\ IF threads[t].m.ctx # INVALID_SPAN
       THEN /\ Assign(t, "span_id", threads[t].m.ctx.span_id)
            /\ Goto(t, "o_trace_id")
       ELSE /\ UNCHANGED reservoir
            /\ Goto(t, "o_offered")
    /\ UNCHANGED <<period, emitted, calls>>

\* self.__trace_id = span_context.trace_id
T_OfferTraceId(t) ==
    /\ threads[t].pc = "o_trace_id"
    /\ Assign(t, "trace_id", threads[t].m.ctx.trace_id)
    /\ Goto(t, "o_offered")
    /\ UNCHANGED <<period, emitted, calls>>

\* self.__offered = True, and offer returns
T_OfferOffered(t) ==
    /\ threads[t].pc = "o_offered"
    /\ Assign(t, "offered", TRUE)
    /\ Step(t, Idle)
    /\ UNCHANGED <<period, emitted, calls>>

\* thread t calls collect: filter and map build lazy iterators and touch no
\* bucket
T_CallCollect(t) ==
    /\ threads[t].op = "idle"
    /\ calls < MaxCalls
    /\ \E point_attributes \in ThreadPointAttributeSets :
          Step(t, [Idle EXCEPT !.op = "collect", !.pc = "c_reset",
                               !.point_attributes = point_attributes])
    /\ calls' = calls + 1
    /\ UNCHANGED <<reservoir, period, emitted>>

\* where collect goes on after bucket i: the next bucket, or the return
AfterBucket(i) ==
    IF i + 1 < reservoir.size THEN "b_offered" ELSE "c_return"

\* self._reset(), then the list is built from the first bucket on
T_CollectReset(t) ==
    /\ threads[t].pc = "c_reset"
    /\ reservoir' = Reset(reservoir)
    /\ Step(t, [threads[t] EXCEPT !.index = 0, !.pc = AfterBucket(0 - 1)])
    /\ UNCHANGED <<period, emitted, calls>>

\* bucket.collect: if not self.__offered: return None
T_BucketOffered(t) ==
    /\ threads[t].pc = "b_offered"
    /\ IF Bucket(t).offered
       THEN Goto(t, "b_truthy")
       ELSE Step(t, [threads[t] EXCEPT !.index = @ + 1,
                                       !.pc = AfterBucket(threads[t].index)])
    /\ UNCHANGED <<reservoir, period, emitted, calls>>

\* the test `if self.__attributes` of the conditional expression
T_BucketTruthy(t) ==
    /\ threads[t].pc = "b_truthy"
    /\ IF Truthy(Bucket(t).attributes)
       THEN Goto(t, "b_items")
       ELSE Step(t, [threads[t] EXCEPT
                        !.exemplar.filtered_attributes = NoneAttributes,
                        !.pc = "b_value"])
    /\ UNCHANGED <<reservoir, period, emitted, calls>>

\* the comprehension over self.__attributes.items(): an AttributeError that
\* ends the collect when the attributes are None by now
T_BucketItems(t) ==
    /\ threads[t].pc = "b_items"
    /\ IF Bucket(t).attributes.none
       THEN Step(t, Idle)
       ELSE Step(t, [threads[t] EXCEPT
                        !.exemplar.filtered_attributes =
                           Dict({kv \in Bucket(t).attributes.items :
                                    kv[1] \notin
                                       Keys(threads[t].point_attributes)}),
                        !.pc = "b_value"])
    /\ UNCHANGED <<reservoir, period, emitted, calls>>

\* the argument field of Exemplar(...) is read, then collect is at pc
ReadField(t, field, pc) ==
    /\ Step(t, [threads[t] EXCEPT !.exemplar[field] = Bucket(t)[field],
                                  !.pc = pc])
    /\ UNCHANGED <<reservoir, period, emitted, calls>>

T_BucketValue(t) ==
    threads[t].pc = "b_value" /\ ReadField(t, "value", "b_time")

T_BucketTime(t) ==
    threads[t].pc = "b_time" /\ ReadField(t, "time_unix_nano", "b_span_id")

T_BucketSpanId(t) ==
    threads[t].pc = "b_span_id" /\ ReadField(t, "span_id", "b_trace_id")

T_BucketTraceId(t) ==
    threads[t].pc = "b_trace_id" /\ ReadField(t, "trace_id", "r_value")

\* an assignment of __reset, then collect is at pc
ResetField(t, field, value, pc) ==
    /\ Assign(t, field, value)
    /\ Goto(t, pc)
    /\ UNCHANGED <<period, emitted, calls>>

T_ResetValue(t) ==
    threads[t].pc = "r_value" /\ ResetField(t, "value", 0, "r_attributes")

T_ResetAttributes(t) ==
    threads[t].pc = "r_attributes"
       /\ ResetField(t, "attributes", Dict({}), "r_time")

T_ResetTime(t) ==
    threads[t].pc = "r_time"
       /\ ResetField(t, "time_unix_nano", 0, "r_span_id")

T_ResetSpanId(t) ==
    threads[t].pc = "r_span_id"
       /\ ResetField(t, "span_id", None, "r_trace_id")

T_ResetTraceId(t) ==
    threads[t].pc = "r_trace_id"
       /\ ResetField(t, "trace_id", None, "r_offered")

\* self.__offered = False; bucket.collect returns the exemplar, which passes
\* the filter, and the list goes on with the next bucket
T_ResetOffered(t) ==
    /\ threads[t].pc = "r_offered"
    /\ Assign(t, "offered", FALSE)
    /\ Step(t, [threads[t] EXCEPT
                   !.exemplars = Append(@, threads[t].exemplar),
                   !.index = @ + 1,
                   !.pc = AfterBucket(threads[t].index)])
    /\ UNCHANGED <<period, emitted, calls>>

\* return [*exemplars]
T_CollectReturn(t) ==
    /\ threads[t].pc = "c_return"
    /\ emitted' = Append(emitted,
                         [result |-> threads[t].exemplars,
                          point_attributes |-> threads[t].point_attributes])
    /\ Step(t, Idle)
    /\ UNCHANGED <<reservoir, period, calls>>

ThreadNext ==
    \E t \in Tids :
       \/ T_CallOffer(t)
       \/ T_Find(t)
       \/ T_OfferValue(t)
       \/ T_OfferTime(t)
       \/ T_OfferAttributes(t)
       \/ T_OfferSpanId(t)
       \/ T_OfferTraceId(t)
       \/ T_OfferOffered(t)
       \/ T_CallCollect(t)
       \/ T_CollectReset(t)
       \/ T_BucketOffered(t)
       \/ T_BucketTruthy(t)
       \/ T_BucketItems(t)
       \/ T_BucketValue(t)
       \/ T_BucketTime(t)
       \/ T_BucketSpanId(t)
       \/ T_BucketTraceId(t)
       \/ T_ResetValue(t)
       \/ T_ResetAttributes(t)
       \/ T_ResetTime(t)
       \/ T_ResetSpanId(t)
       \/ T_ResetTraceId(t)
       \/ T_ResetOffered(t)
       \/ T_CollectReturn(t)

ThreadSpec == ThreadInit /\ [][ThreadNext]_vars

\* ------------------------------------------------------------------------
\* Properties
\* ------------------------------------------------------------------------
AtCollect == lastCall.op = "collect"
Storage == reservoir.reservoir_storage
IsSimple == reservoir.kind = "simple"

\* the exemplar e was taken from the measurement m
From(e, m) == e.value = m.value /\ e.time_unix_nano = m.time_unix_nano

\* the measurements of seq have pairwise distinct values
Distinct(seq) ==
    \A i, j \in 1 .. Len(seq) : i # j => seq[i].value # seq[j].value

\* the measurement m is among the exemplars of the last collect
Retained(m) ==
    \E k \in 1 .. Len(lastCall.result) : From(lastCall.result[k], m)

ValuesOf(seq) == [k \in 1 .. Len(seq) |-> seq[k].value]

\* C1: a simple reservoir of capacity N >= 1 that was offered M distinct
\* measurements, 1 <= M <= N, since its last reset returns exactly M exemplars
\* on collect, one for each offered measurement.
C1_FillKeepsEveryOffer ==
    (AtCollect /\ IsSimple /\ reservoir.size >= 1 /\ Distinct(collected)
        /\ Len(collected) >= 1 /\ Len(collected) <= reservoir.size)
    => /\ Len(lastCall.result) = Len(collected)
       /\ \A i \in 1 .. Len(collected) : Retained(collected[i])

\* C2: a simple reservoir of capacity N >= 1 that was offered M > N distinct
\* measurements since its last reset returns exactly N exemplars on collect,
\* each taken from one of the offered measurements, none of them twice.
C2_OverflowKeepsExactlyN ==
    (AtCollect /\ IsSimple /\ reservoir.size >= 1 /\ Distinct(collected)
        /\ Len(collected) > reservoir.size)
    => /\ Len(lastCall.result) = reservoir.size
       /\ \A k \in 1 .. Len(lastCall.result) :
             \E i \in 1 .. Len(collected) :
                From(lastCall.result[k], collected[i])
       /\ \A k1, k2 \in 1 .. Len(lastCall.result) :
             k1 # k2 =>
                lastCall.result[k1].time_unix_nano
                   # lastCall.result[k2].time_unix_nano

\* C3: in a simple reservoir measurements_seen equals the number of offers
\* made since the last reset: every offer adds exactly one to it.
C3_SeenCountsEveryOffer ==
    (IsSimple /\ reservoir.size >= 1 /\ lastCall.op # "collect")
    => reservoir.measurements_seen = Len(period)

\* C4: every measurement offered to a simple reservoir since the last reset
\* can be retained: some outcome of the random draws has it in the result of
\* the collect.  A period in which no draw was made has one outcome only, so
\* there every offered measurement must be in the result.
C4_EveryOfferCanBeRetained ==
    (AtCollect /\ IsSimple /\ reservoir.size >= 1 /\ draws = 0)
    => \A i \in 1 .. Len(collected) : Retained(collected[i])

\* C5: after N offers to a simple reservoir of capacity N measurements_seen is
\* N, so that the next offer draws from [0, N); with capacity 2 and the offers
\* 1, 2, 3 the collect returns [3, 2] (draw 0) or [1, 3] (draw 1).
C5_DrawAfterFill ==
    /\ (IsSimple /\ reservoir.size >= 1 /\ lastCall.op = "offer"
           /\ Len(period) = reservoir.size)
       => reservoir.measurements_seen = reservoir.size
    /\ (AtCollect /\ IsSimple /\ reservoir.size = 2
           /\ ValuesOf(collected) = <<1, 2, 3>>)
       => ValuesOf(lastCall.result) \in {<<3, 2>>, <<1, 3>>}

\* C6: every collected exemplar carries the span id and the trace id of the
\* span that was active in the offer that stored it, and None for both when
\* that offer had no valid span.
C6_ExemplarCarriesSpanOfItsOffer ==
    AtCollect =>
       \A k \in 1 .. Len(lastCall.result) :
          \A i \in 1 .. Len(collected) :
             From(lastCall.result[k], collected[i]) =>
                IF collected[i].ctx # INVALID_SPAN
                THEN /\ lastCall.result[k].span_id = collected[i].ctx.span_id
                     /\ lastCall.result[k].trace_id = collected[i].ctx.trace_id
                ELSE /\ lastCall.result[k].span_id = None
                     /\ lastCall.result[k].trace_id = None

\* C7: a capacity N <= 0 is rejected by the constructor: where the size is
\* not positive the constructor has raised and no other call was made.
C7_ConstructorRejectsNonPositiveSize ==
    reservoir.size <= 0 => (lastCall.op = "__init__" /\ lastCall.raised)

\* C8: a collect never returns more exemplars than the capacity fixed at
\* construction.
C8_ResultWithinCapacity ==
    AtCollect => Len(lastCall.result) <= reservoir.size

\* a bucket in the empty state
EmptyBucket(bucket) ==
    /\ ~bucket.offered
    /\ bucket.span_id = None
    /\ bucket.trace_id = None
    /\ bucket.value = 0
    /\ bucket.time_unix_nano = 0
    /\ ~Truthy(bucket.attributes)

\* C9: after a collect every bucket is empty and measurements_seen is 0, and
\* from then on every call returns what it returns on a reservoir constructed
\* anew with the same configuration.
C9_CollectRestoresConstructedState ==
    /\ AtCollect =>
          /\ \A i \in DOMAIN Storage : EmptyBucket(Storage[i])
          /\ reservoir.measurements_seen = 0
    /\ lastCall = freshCall
    /\ \A point_attributes \in PointAttributeSets :
          FixedSize_collect(reservoir, point_attributes).result
             = FixedSize_collect(fresh, point_attributes).result

\* a collect has drained at least one bucket, which leaves the object in a
\* state that is not the constructed one field by field
C9_Witness ==
    AtCollect /\ prevOp = "offer" /\ lastCall.result # <<>>
       /\ reservoir # fresh

\* C10: a collect that follows a collect with no offer in between returns an
\* empty sequence, and a bucket whose offered flag is false yields no exemplar.
C10_CollectTakesAndClears ==
    /\ (AtCollect /\ prevOp = "collect") => lastCall.result = <<>>
    /\ \A i \in DOMAIN Storage :
          \A point_attributes \in PointAttributeSets :
             (~Storage[i].offered) =>
                Bucket_collect(Storage[i], point_attributes).exemplar = <<>>

\* two collects in a row on a reservoir that an earlier collect has drained
C10_Witness ==
    AtCollect /\ prevOp = "collect" /\ lastCall.result = <<>>
       /\ reservoir # fresh

IsAligned == reservoir.kind = "aligned"

\* the histogram interval of a value: the 0-based position of the first
\* boundary that is not below it, the overflow index when there is none
Interval(boundaries, value) ==
    LET qualifying == {p \in 1 .. Len(boundaries) : value <= boundaries[p]}
    IN  IF qualifying = {}
        THEN Len(boundaries)
        ELSE (CHOOSE p \in qualifying : \A q \in qualifying : p <= q) - 1

\* the last measurement offered in the running period
LastOffered == period[Len(period)]

\* C11: every offer to an aligned reservoir writes the bucket of the first
\* boundary b with value <= b, the overflow bucket when there is none, and no
\* other bucket; with the boundaries [10, 20] the values 5, 15 and 25 go to
\* the buckets 0, 1 and 2, and a value equal to a boundary to its bucket.
C11_OfferWritesIntervalBucket ==
    /\ (IsAligned /\ lastCall.op = "offer") =>
          LET index == Interval(reservoir.boundaries, LastOffered.value)
          IN  /\ index \in DOMAIN Storage
              /\ Storage[index].offered
              /\ Storage[index].value = LastOffered.value
              /\ Storage[index].time_unix_nano = LastOffered.time_unix_nano
              /\ \A j \in DOMAIN Storage :
                    j # index =>
                       Storage[j].time_unix_nano # LastOffered.time_unix_nano
    /\ Aligned_find_bucket_index(Aligned_init(<<10, 20>>), 5) = 0
    /\ Aligned_find_bucket_index(Aligned_init(<<10, 20>>), 15) = 1
    /\ Aligned_find_bucket_index(Aligned_init(<<10, 20>>), 25) = 2
    /\ Aligned_find_bucket_index(Aligned_init(<<10, 20>>), 10) = 0
    /\ Aligned_find_bucket_index(Aligned_init(<<10, 20>>), 20) = 1

\* an offer of a value equal to the second of two boundaries has written
\* bucket 1, after an offer to the overflow bucket
C11_Witness ==
    /\ IsAligned /\ lastCall.op = "offer"
    /\ reservoir.boundaries = <<1, 2>>
    /\ Len(period) = 2
    /\ period[1].value = 3
    /\ LastOffered.value = 2
    /\ Storage[1].time_unix_nano = 2
    /\ Storage[2].time_unix_nano = 1

\* the positions in `collected` of the offers that fell into interval b
OffersInto(b) ==
    {i \in 1 .. Len(collected) :
        Interval(reservoir.boundaries, collected[i].value) = b}

\* the largest element of a non-empty set of integers
MaxOf(S) == CHOOSE x \in S : \A y \in S : y <= x

\* C12: the collect of an aligned reservoir returns, for every interval that
\* was offered a measurement since the last collect, exactly one exemplar, the
\* one of the measurement offered last to that interval, and nothing for the
\* other intervals.
C12_LastSamplePerIntervalWins ==
    (AtCollect /\ IsAligned) =>
       /\ Len(lastCall.result)
             = Cardinality({b \in 0 .. (reservoir.size - 1) :
                               OffersInto(b) # {}})
       /\ \A b \in 0 .. (reservoir.size - 1) :
             \A i \in OffersInto(b) :
                Retained(collected[i]) <=> (i = MaxOf(OffersInto(b)))

\* two offers into the same interval and none into another one, then collect:
\* only the second offer is returned
C12_Witness ==
    /\ AtCollect /\ IsAligned
    /\ reservoir.boundaries = <<2>>
    /\ Len(collected) = 2
    /\ collected[1].value = 1
    /\ collected[2].value = 2
    /\ Len(lastCall.result) = 1
    /\ lastCall.result[1].value = 2
    /\ lastCall.result[1].time_unix_nano = 2

\* C13: the attributes of a collected exemplar are the attributes given to the
\* offer that stored it without the keys of the point attributes of the
\* collect: no key of the point attributes is left and no other key is lost.
C13_FilteredAttributes ==
    AtCollect =>
       \A k \in 1 .. Len(lastCall.result) :
          \A i \in 1 .. Len(collected) :
             From(lastCall.result[k], collected[i]) =>
                /\ lastCall.result[k].filtered_attributes.items
                      = {kv \in collected[i].attributes.items :
                            kv[1] \notin Keys(lastCall.point_attributes)}
                /\ Keys(lastCall.result[k].filtered_attributes.items)
                      \cap Keys(lastCall.point_attributes) = {}

\* an exemplar offered with the keys a and b and collected for a point that
\* has the key a with another value keeps b only
C13_Witness ==
    /\ AtCollect
    /\ lastCall.point_attributes = {<<"a", 7>>}
    /\ Len(lastCall.result) >= 1
    /\ Len(collected) >= 1
    /\ collected[Len(collected)].attributes = Dict({<<"a", 1>>, <<"b", 2>>})
    /\ \E k \in 1 .. Len(lastCall.result) :
          /\ From(lastCall.result[k], collected[Len(collected)])
          /\ lastCall.result[k].filtered_attributes = Dict({<<"b", 2>>})

\* the buckets that hold a sample
Occupied == {i \in DOMAIN Storage : Storage[i].offered}

\* the exemplar e is the sample of bucket i
HeldIn(e, i) ==
    /\ Storage[i].value = e.value
    /\ Storage[i].time_unix_nano = e.time_unix_nano

\* C14: collect returns the exemplars of the occupied buckets in the order of
\* the bucket indices, whatever the order of the offers, and nothing for an
\* empty bucket.
C14_ResultInBucketOrder ==
    /\ \A point_attributes \in PointAttributeSets :
          LET result == FixedSize_collect(reservoir, point_attributes).result
          IN  /\ Len(result) = Cardinality(Occupied)
              /\ \A k \in 1 .. Len(result) :
                    \E i \in Occupied : HeldIn(result[k], i)
              /\ \A k1, k2 \in 1 .. Len(result) :
                    k1 < k2 =>
                       \E i1, i2 \in Occupied :
                          /\ i1 < i2
                          /\ HeldIn(result[k1], i1)
                          /\ HeldIn(result[k2], i2)
    /\ (AtCollect /\ IsAligned) =>
          \A k1, k2 \in 1 .. Len(lastCall.result) :
             k1 < k2 =>
                Interval(reservoir.boundaries, lastCall.result[k1].value)
                   < Interval(reservoir.boundaries, lastCall.result[k2].value)

\* the overflow bucket was offered to before bucket 0 and bucket 1 not at all:
\* collect returns the sample of bucket 0 first and no placeholder
C14_Witness ==
    /\ AtCollect /\ IsAligned
    /\ reservoir.boundaries = <<1, 2>>
    /\ ValuesOf(collected) = <<3, 1>>
    /\ ValuesOf(lastCall.result) = <<1, 3>>
    /\ lastCall.result[1].time_unix_nano = 2
    /\ lastCall.result[2].time_unix_nano = 1

\* C15: on a reservoir of capacity N >= 1 no call raises: no call made so far
\* has raised, and no offer that can be made next raises, so randrange is
\* never called on an empty range.
C15_NoErrorWithValidCapacity ==
    reservoir.size >= 1 =>
       /\ ~lastCall.raised
       /\ \A value \in Values, attributes \in AttributeSets,
             ctx \in Contexts, r \in DrawChoices(reservoir) :
             ~Offer(reservoir, value, Now, attributes, ctx, r).raised

\* more offers than buckets were made to a simple reservoir and the last one
\* returned without an error
C15_Witness ==
    /\ IsSimple /\ reservoir.size >= 1
    /\ lastCall.op = "offer" /\ ~lastCall.raised
    /\ Len(period) > reservoir.size

\* a bucket that holds the measurement m and nothing else
HoldsOnly(bucket, m) ==
    /\ bucket.offered
    /\ bucket.value = m.value
    /\ bucket.time_unix_nano = m.time_unix_nano
    /\ bucket.attributes = m.attributes
    /\ bucket.span_id = (IF m.ctx # INVALID_SPAN THEN m.ctx.span_id ELSE None)
    /\ bucket.trace_id
          = (IF m.ctx # INVALID_SPAN THEN m.ctx.trace_id ELSE None)

\* C16: an offer changes at most one bucket, and the bucket it changes holds
\* the offered measurement only, with nothing of the previous occupant.
C16_OfferWritesOneBucketEntirely ==
    [][(lastCall'.op = "offer" /\ ~lastCall'.raised) =>
          LET written == {i \in DOMAIN reservoir.reservoir_storage :
                             reservoir'.reservoir_storage[i]
                                # reservoir.reservoir_storage[i]}
          IN  /\ Cardinality(written) <= 1
              /\ \A i \in written :
                    HoldsOnly(reservoir'.reservoir_storage[i],
                              period'[Len(period')])]_vars

\* C17: every measurement offered to a simple reservoir of capacity N is
\* retained with probability 1 when M <= N measurements were offered, so it
\* is in the result of every such period; when M > N the probability N/M is
\* below 1, so a draw must have been made in the period.
C17_UniformRetention ==
    /\ (AtCollect /\ IsSimple /\ reservoir.size >= 1
           /\ Len(collected) <= reservoir.size)
       => \A i \in 1 .. Len(collected) : Retained(collected[i])
    /\ (AtCollect /\ IsSimple /\ reservoir.size >= 1
           /\ Len(collected) > reservoir.size)
       => draws >= 1

\* C20: on a reservoir of capacity N >= 1 a collect returns a non-empty
\* sequence exactly when an offer was made since the previous reset, and every
\* exemplar it returns is of a measurement offered since that reset.
C20_NonEmptyIffOffered ==
    (AtCollect /\ reservoir.size >= 1) =>
       /\ (lastCall.result # <<>>) <=> (collected # <<>>)
       /\ \A k \in 1 .. Len(lastCall.result) :
             \E i \in 1 .. Len(collected) :
                From(lastCall.result[k], collected[i])

\* a period with one offer, to the overflow bucket, is collected on a
\* reservoir whose bucket 0 was drained by an earlier collect
C20_Witness ==
    /\ AtCollect /\ IsAligned
    /\ reservoir.boundaries = <<2>>
    /\ ValuesOf(collected) = <<3>>
    /\ ValuesOf(lastCall.result) = <<3>>
    /\ Storage[0].attributes = Dict({})

\* C18: within a collect the reset hook runs after the last bucket has been
\* queried: a collect that has run _reset has no bucket left to query.
C18_ResetAfterLastBucket ==
    \A t \in Tids :
       (threads[t].op = "collect" /\ threads[t].pc # "c_reset")
       => /\ threads[t].pc = "c_return"
          /\ threads[t].index >= reservoir.size

\* the exemplar e, collected with point_attributes, has the value, the
\* timestamp and the attributes of one of the offered measurements
Whole(e, point_attributes) ==
    \E i \in 1 .. Len(period) :
       /\ e.value = period[i].value
       /\ e.time_unix_nano = period[i].time_unix_nano
       /\ e.filtered_attributes.items
             = {kv \in period[i].attributes.items :
                   kv[1] \notin Keys(point_attributes)}

\* a collect has returned an exemplar that is of no single measurement
TornEmitted ==
    \E c \in 1 .. Len(emitted) :
       \E k \in 1 .. Len(emitted[c].result) :
          ~Whole(emitted[c].result[k], emitted[c].point_attributes)

\* every call has returned and the measurement offered last, which no offer
\* can have overwritten, is in no bucket and in no returned exemplar
LastLost ==
    /\ \A t \in Tids : threads[t].op = "idle"
    /\ period # <<>>
    /\ \A i \in DOMAIN Storage :
          ~(Storage[i].offered
               /\ Storage[i].time_unix_nano = Len(period))
    /\ \A c \in 1 .. Len(emitted) :
          \A k \in 1 .. Len(emitted[c].result) :
             emitted[c].result[k].time_unix_nano # Len(period)

\* C19: the reservoir is safe only under mutual exclusion of the calls: an
\* exemplar mixed from several measurements, or the loss of a measurement
\* from every collection, occurs only after calls have overlapped, and with
\* overlapping calls it does occur (C19_Witness, C19_LostWitness).
C19_UnsafeOnlyWhenCallsOverlap ==
    (TornEmitted \/ LastLost) => overlapped

\* a collect has returned an exemplar with the value of one measurement and
\* the timestamp of another one
C19_Witness ==
    /\ overlapped
    /\ \E c \in 1 .. Len(emitted) :
          \E k \in 1 .. Len(emitted[c].result) :
             \E i, j \in 1 .. Len(period) :
                /\ i # j
                /\ period[i].value # period[j].value
                /\ emitted[c].result[k].value = period[i].value
                /\ emitted[c].result[k].time_unix_nano
                      = period[j].time_unix_nano

\* a second measurement was offered while a collect was returning the first
\* one; every call has returned, the collect has returned the first
\* measurement only, and the second is in no bucket, so that no later collect
\* returns it either
C19_LostWitness ==
    /\ overlapped
    /\ LastLost
    /\ Len(period) = 2
    /\ Len(emitted) = 1
    /\ Len(emitted[1].result) = 1
    /\ emitted[1].result[1].time_unix_nano = 1
    /\ emitted[1].result[1].value = period[1].value
    /\ Whole(emitted[1].result[1], emitted[1].point_attributes)
    /\ \A i \in DOMAIN Storage : ~Storage[i].offered

====
